---- MODULE Spec2Model ----
(***************************************************************************)
(* A model of the Redash query client (app/redash_client.py): the          *)
(* operations list_data_sources, execute_query, execute_predefined_query,  *)
(* the job polling loop _poll_job_status and the result normalizer         *)
(* _format_query_result.                                                   *)
(*                                                                         *)
(* JSON objects / Python dicts are functions from string keys to values    *)
(* (TLA+ records); a missing key is a key outside the DOMAIN.  Identifiers *)
(* and timestamps are strings, Python's None in a scalar slot is the       *)
(* reserved string None, JSON null in an object slot is JsonNull.          *)
(***************************************************************************)
EXTENDS Integers, Sequences, FiniteSets, TLC

VARIABLES
    client,     \* the RedashClient instance: base_url, api_key, data_source_id, headers
    pc,         \* where the running client call is
    op,         \* which client operation is running
    args,       \* the arguments of the running call
    query_id,   \* execute_query: id of the query resource just created
    job_data,   \* the body of the trigger response
    job_id,     \* the job being polled
    result_id,  \* job_result["query_result_id"]
    outcome,    \* how the call ended: a returned value or a raised exception
    trace,      \* every outbound HTTP call (with its response) and every sleep, in order
    fmt,        \* the normalizer applied on its own: input, first and second output
    submitted,  \* the query text of every execute_query call made so far
    creates,    \* the body of every create-query call made so far
    phase,      \* each gateway request: new, waiting, running or served
    handler,    \* the request of the gateway handler that is running
    response    \* the HTTP response the running handler has produced

vars == <<client, pc, op, args, query_id, job_data, job_id, result_id, outcome, trace, fmt,
          submitted, creates, phase, handler, response>>

----------------------------------------------------------------------------
(* Bounds of the model *)

\* the service reports at most MaxPending non-terminal statuses for one job
MaxPending == 3

\* the longest row list of a result payload
MaxRows == 1

\* execute_query is called at most MaxCalls times in a run
MaxCalls == 2

\* the gateway receives at most MaxRequests requests in a run
MaxRequests == 2

----------------------------------------------------------------------------
(* Program constants *)

COMPLETED == 3
FAILED == 4
POLL_INTERVAL == 1
DEFAULT_DATA_SOURCE_ID == 6

----------------------------------------------------------------------------
(* Python values *)

None == "None"
JsonNull == [null |-> TRUE]
EmptyDict == [k \in {} |-> None]

\* dict.get(key, default)
Get(d, key, default) == IF key \in DOMAIN d THEN d[key] ELSE default

\* truth value of an object-typed value: None and the empty dict are falsy
Truthy(d) == d # JsonNull /\ DOMAIN d # {}

\* list(d.keys()), for the message of an exception
RECURSIVE KeyList(_)
KeyList(S) == IF S = {} THEN <<>>
              ELSE LET k == CHOOSE x \in S : TRUE IN <<k>> \o KeyList(S \ {k})

Return(v) == [kind |-> "return", value |-> v]
Raise(type, msg) == [kind |-> "raise", exc |-> [type |-> type, msg |-> msg]]
NoOutcome == [kind |-> "none"]

----------------------------------------------------------------------------
(* _format_query_result *)

NoResultError == Raise("Exception", <<"No query result in response">>)

\* query_result.get("data", {}).get(...) when data is null
NoneHasNoGet == Raise("AttributeError", <<"'NoneType' object has no attribute 'get'">>)

\* a normalizer that lays columns and rows beside the other fields
FormatFlattened(result, query) ==
    LET query_result == Get(result, "query_result", result) IN
    IF ~Truthy(query_result)
    THEN NoResultError
    ELSE IF Get(query_result, "data", EmptyDict) = JsonNull
    THEN NoneHasNoGet
    ELSE Return([query_result |->
            [id |-> Get(query_result, "id", None),
             query |-> IF query # "" THEN query ELSE Get(query_result, "query", ""),
             columns |-> Get(Get(query_result, "data", EmptyDict), "columns", <<>>),
             rows |-> Get(Get(query_result, "data", EmptyDict), "rows", <<>>),
             data_source_id |-> Get(query_result, "data_source_id", None),
             runtime |-> Get(query_result, "runtime", 0),
             retrieved_at |-> Get(query_result, "retrieved_at", None)]])

\* if not query_result
NoPayloadOnlyNull(query_result) == query_result = JsonNull
NoPayload(query_result) == ~Truthy(query_result)

\* the "data" entry of the normalized result
DataPassedThrough(query_result) == Get(query_result, "data", EmptyDict)
FormatData(query_result) ==
    [columns |-> Get(Get(query_result, "data", EmptyDict), "columns", <<>>),
     rows |-> Get(Get(query_result, "data", EmptyDict), "rows", <<>>)]

FormatQueryResult(result, query) ==
    LET query_result == Get(result, "query_result", result) IN
    IF NoPayload(query_result)
    THEN NoResultError
    ELSE IF Get(query_result, "data", EmptyDict) = JsonNull
    THEN NoneHasNoGet
    ELSE Return([query_result |->
            [id |-> Get(query_result, "id", None),
             query |-> IF query # "" THEN query ELSE Get(query_result, "query", ""),
             data |-> FormatData(query_result),
             data_source_id |-> Get(query_result, "data_source_id", None),
             runtime |-> Get(query_result, "runtime", 0),
             retrieved_at |-> Get(query_result, "retrieved_at", None)]])

----------------------------------------------------------------------------
(* The external query service: what its endpoints may answer *)

Queries == {"", "SELECT 1", "SELECT 2"}
DataSourceArgs == {0, 7}
PredefinedIds == {"12"}
ParameterMaps == {EmptyDict, [start_date |-> "2024-01-01"]}
CreatedIds == {"101"}
JobIds == {"abc", "xyz"}
ResultIds == {"42", "99"}
NonTerminal == {1, 2}
HttpErrors == {404, 500}

\* rows [[1]], [[1],[1]], ... up to MaxRows rows
RowLists == {[i \in 1..n |-> <<1>>] : n \in 0..MaxRows}

FullPayload(id) ==
    [id |-> id, query |-> "SELECT 0",
     data |-> [columns |-> <<"c">>, rows |-> [i \in 1..MaxRows |-> <<1>>]],
     data_source_id |-> "6", runtime |-> 5, retrieved_at |-> "t1"]

\* result payloads the service hands out while a call runs
ServicePayloads ==
    {FullPayload(id) : id \in ResultIds}
        \cup {[id |-> "42", data |-> [columns |-> <<>>, rows |-> <<<<1>>>>]],
              [id |-> "42", data |-> JsonNull],
              [runtime |-> 5],
              EmptyDict}

\* bodies of POST /api/queries
CreateBodies == {[id |-> q] : q \in CreatedIds} \cup {EmptyDict}

\* bodies of POST /api/queries/{id}/results
TriggerBodies ==
    {EmptyDict, [message |-> "queued"], [job |-> EmptyDict], [query_result |-> JsonNull]}
        \cup {[job |-> [id |-> j]] : j \in JobIds}
        \cup {[query_result |-> p] : p \in ServicePayloads}
        \cup {[job |-> [id |-> "abc"], query_result |-> FullPayload("42")]}

\* bodies of GET /api/jobs/{job_id}
TerminalJobBodies ==
    {EmptyDict, [job |-> EmptyDict], [job |-> [status |-> COMPLETED]],
     [job |-> [status |-> FAILED]], [job |-> [status |-> FAILED, error |-> "boom"]]}
        \cup {[job |-> [status |-> COMPLETED, query_result_id |-> rid]] : rid \in ResultIds}
PendingJobBodies == {[job |-> [status |-> s]] : s \in NonTerminal}

\* bodies of GET /api/query_results/{result_id}
ResultBodies ==
    {[query_result |-> p] : p \in ServicePayloads}
        \cup {FullPayload("99"), [query_result |-> JsonNull]}

\* bodies of GET /api/data_sources
DataSourceLists == {<<>>, <<[id |-> "6", name |-> "warehouse"]>>}

Responses(bodies) ==
    {[status |-> 200, body |-> b] : b \in bodies}
        \cup {[status |-> c, body |-> EmptyDict] : c \in HttpErrors}

----------------------------------------------------------------------------
(* Outbound calls *)

Url(parts) == <<client.base_url, "api">> \o parts

HttpCall(method, parts, json, resp) ==
    [kind |-> "http", method |-> method, url |-> Url(parts), json |-> json,
     headers |-> client.headers, status |-> resp.status, body |-> resp.body]

SleepCall == [kind |-> "sleep", seconds |-> POLL_INTERVAL]

\* response.raise_for_status()
HTTPError(resp, parts) ==
    Raise("HTTPError",
          <<IF resp.status < 500 THEN "Client Error for url" ELSE "Server Error for url">>
              \o Url(parts))
KeyError(key) == Raise("KeyError", <<key>>)

\* hashlib.md5(query.encode()).hexdigest()[:8]
GetQueryHash8(query) ==
    CASE query = "" -> "d41d8cd9"
      [] query = "SELECT 1" -> "b1698e52"
      [] OTHER -> "fc1c7a0b"

----------------------------------------------------------------------------
(* Trace queries *)

IsHttp(e) == e.kind = "http"
IsSleep(e) == e.kind = "sleep"
\* the outbound call e goes to {base}/api/<first>/...
Targets(e, first) == IsHttp(e) /\ e.url[3] = first
IsCreate(e) == Targets(e, "queries") /\ Len(e.url) = 3
IsTrigger(e) == Targets(e, "queries") /\ Len(e.url) = 5
IsStatusFetch(e) == Targets(e, "jobs")
IsResultFetch(e) == Targets(e, "query_results")
IsListFetch(e) == Targets(e, "data_sources")

Count(seq, Test(_)) == Cardinality({i \in 1..Len(seq) : Test(seq[i])})

\* what a status fetch reported: the job's status, or 0 for an HTTP error or a
\* body without one (the service's statuses are positive)
ReportedStatus(e) ==
    IF e.status = 200 /\ "job" \in DOMAIN e.body /\ "status" \in DOMAIN e.body.job
    THEN e.body.job.status ELSE 0
IsTerminalFetch(e) == IsStatusFetch(e) /\ ReportedStatus(e) \in {COMPLETED, FAILED}
IsPendingFetch(e) ==
    IsStatusFetch(e) /\ ReportedStatus(e) # 0 /\ ReportedStatus(e) \notin {COMPLETED, FAILED}

----------------------------------------------------------------------------
(* The client *)

Finish(result) ==
    /\ pc' = "done"
    /\ outcome' = result

\* a client that keeps the data source of its previous create-query call
LastUsedDataSource(a) ==
    IF "data_source_id" \in DOMAIN a /\ a.data_source_id # 0
    THEN a.data_source_id
    ELSE IF Len(creates) > 0 THEN creates[Len(creates)].data_source_id
    ELSE client.data_source_id

\* data_source_id = data_source_id or self.data_source_id
EffectiveDataSource(a) ==
    IF "data_source_id" \in DOMAIN a /\ a.data_source_id # 0
    THEN a.data_source_id ELSE client.data_source_id

\* list_data_sources: one GET, raise_for_status, return the body
ListDataSources ==
    /\ pc = "idle"
    /\ \E resp \in Responses(DataSourceLists) :
        /\ trace' = Append(trace, HttpCall("GET", <<"data_sources">>, JsonNull, resp))
        /\ Finish(IF resp.status # 200 THEN HTTPError(resp, <<"data_sources">>)
                  ELSE Return(resp.body))
    /\ op' = "list_data_sources"
    /\ args' = EmptyDict
    /\ UNCHANGED <<client, query_id, job_data, job_id, result_id, fmt>>

\* an execute_query that creates no query resource for a text it was given before
CreateQueryDeduplicated ==
    /\ pc = "idle"
    /\ \E a \in {[query |-> q] : q \in Queries}
                \cup {[query |-> q, data_source_id |-> d] : q \in Queries, d \in DataSourceArgs},
          resp \in Responses(CreateBodies) :
        LET query_data == [query |-> a.query,
                           data_source_id |-> EffectiveDataSource(a),
                           name |-> "MCP Query - " \o GetQueryHash8(a.query)]
            seen == \E i \in 1..Len(creates) : creates[i].name = query_data.name
        IN
        /\ args' = a
        /\ IF seen
           THEN /\ trace' = trace
                /\ query_id' = "101"
                /\ pc' = "trigger"
                /\ UNCHANGED outcome
           ELSE /\ trace' = Append(trace, HttpCall("POST", <<"queries">>, query_data, resp))
                /\ IF resp.status # 200
                   THEN Finish(HTTPError(resp, <<"queries">>)) /\ UNCHANGED query_id
                   ELSE IF "id" \notin DOMAIN resp.body
                   THEN Finish(KeyError("id")) /\ UNCHANGED query_id
                   ELSE /\ query_id' = resp.body.id
                        /\ pc' = "trigger"
                        /\ UNCHANGED outcome
    /\ op' = "execute_query"
    /\ UNCHANGED <<client, job_data, job_id, result_id, fmt>>

\* execute_query, up to the answer of the create-query call
CreateQuery ==
    /\ pc = "idle"
    /\ \E a \in {[query |-> q] : q \in Queries}
                \cup {[query |-> q, data_source_id |-> d] : q \in Queries, d \in DataSourceArgs},
          resp \in Responses(CreateBodies) :
        LET query_data == [query |-> a.query,
                           data_source_id |-> EffectiveDataSource(a),
                           name |-> "MCP Query - " \o GetQueryHash8(a.query)]
        IN
        /\ args' = a
        /\ trace' = Append(trace, HttpCall("POST", <<"queries">>, query_data, resp))
        /\ IF resp.status # 200
           THEN Finish(HTTPError(resp, <<"queries">>)) /\ UNCHANGED query_id
           ELSE IF "id" \notin DOMAIN resp.body
           THEN Finish(KeyError("id")) /\ UNCHANGED query_id
           ELSE /\ query_id' = resp.body.id
                /\ pc' = "trigger"
                /\ UNCHANGED outcome
    /\ op' = "execute_query"
    /\ UNCHANGED <<client, job_data, job_id, result_id, fmt>>

\* execute_query: which branch the trigger response takes
JobBeforeImmediate(body) ==
    IF "job" \in DOMAIN body THEN "job"
    ELSE IF "query_result" \in DOMAIN body THEN "immediate"
    ELSE "invalid"
TriggerDispatch(body) ==
    IF "query_result" \in DOMAIN body THEN "immediate"
    ELSE IF "job" \in DOMAIN body THEN "job"
    ELSE "invalid"

InvalidAsExecutionFailure(body) ==
    Raise("Exception", <<"Query execution failed: ", "Unknown error">>)
InvalidFormatError(body) ==
    Raise("Exception", <<"Invalid response format. Keys: ">> \o KeyList(DOMAIN body))

\* job_id = job_data["job"]["id"], then on to polling
StartPolling(body) ==
    IF "job" \notin DOMAIN body
    THEN Finish(KeyError("job")) /\ UNCHANGED job_id
    ELSE IF "id" \notin DOMAIN body.job
    THEN Finish(KeyError("id")) /\ UNCHANGED job_id
    ELSE /\ job_id' = body.job.id
         /\ pc' = "poll"
         /\ UNCHANGED outcome

\* execute_query: the trigger call and the dispatch on its answer
TriggerQuery ==
    /\ pc = "trigger"
    /\ op = "execute_query"
    /\ \E resp \in Responses(TriggerBodies) :
        LET parts == <<"queries", query_id, "results">> IN
        /\ trace' = Append(trace, HttpCall("POST", parts, JsonNull, resp))
        /\ IF resp.status # 200
           THEN Finish(HTTPError(resp, parts)) /\ UNCHANGED <<job_data, job_id>>
           ELSE /\ job_data' = resp.body
                /\ CASE TriggerDispatch(resp.body) = "immediate" ->
                          Finish(FormatQueryResult(resp.body, args.query)) /\ UNCHANGED job_id
                     [] TriggerDispatch(resp.body) = "job" -> StartPolling(resp.body)
                     [] OTHER -> Finish(InvalidFormatError(resp.body)) /\ UNCHANGED job_id
    /\ UNCHANGED <<client, op, args, query_id, result_id, fmt>>

\* a payload that carries every mapping it is given, the empty one too
ParametersWheneverGiven(a) ==
    IF "parameters" \in DOMAIN a THEN [parameters |-> a.parameters] ELSE EmptyDict

\* execute_predefined_query: job_data = {"parameters": parameters} if parameters else {}
PredefinedPayload(a) ==
    IF "parameters" \in DOMAIN a /\ DOMAIN a.parameters # {}
    THEN [parameters |-> a.parameters] ELSE EmptyDict

\* execute_predefined_query: "job" not in job_response.json()
PredefinedAcceptsImmediate(body) ==
    "job" \notin DOMAIN body /\ "query_result" \notin DOMAIN body
PredefinedInvalid(body) == "job" \notin DOMAIN body

PredefinedFormatError(body) == Raise("Exception", <<"Invalid response format: ", body>>)

\* execute_predefined_query, up to the dispatch on the trigger's answer
TriggerPredefined ==
    /\ pc = "idle"
    /\ \E a \in {[query_id |-> q] : q \in PredefinedIds}
                \cup {[query_id |-> q, parameters |-> m] : q \in PredefinedIds, m \in ParameterMaps},
          resp \in Responses(TriggerBodies) :
        LET parts == <<"queries", a.query_id, "results">> IN
        /\ args' = a
        /\ trace' = Append(trace, HttpCall("POST", parts, PredefinedPayload(a), resp))
        /\ IF resp.status # 200
           THEN Finish(HTTPError(resp, parts)) /\ UNCHANGED <<job_data, job_id>>
           ELSE /\ job_data' = resp.body
                /\ IF PredefinedInvalid(resp.body)
                   THEN Finish(PredefinedFormatError(resp.body)) /\ UNCHANGED job_id
                   ELSE StartPolling(resp.body)
    /\ op' = "execute_predefined_query"
    /\ UNCHANGED <<client, query_id, result_id, fmt>>

\* _poll_job_status: what the loop does with a status
GiveUpAfterTwoFetches(status) ==
    IF status = COMPLETED THEN "return"
    ELSE IF status = FAILED \/ Count(trace, IsStatusFetch) >= 2 THEN "raise"
    ELSE "sleep"
KeepPollingFailed(status) ==
    IF status = COMPLETED THEN "return" ELSE "sleep"
PollDecision(status) ==
    IF status = COMPLETED THEN "return"
    ELSE IF status = FAILED THEN "raise"
    ELSE "sleep"

\* raise Exception(f"Query execution failed: {error}")
FailureWithoutText(job) ==
    Raise("Exception", <<"Query execution failed: ", "Unknown error">>)
QueryExecutionFailed(job) ==
    Raise("Exception", <<"Query execution failed: ", Get(job, "error", "Unknown error")>>)

\* f"{self.base_url}/api/jobs/{job_id}"
JobStatusPath == <<"jobs", job_id>>

\* one turn of _poll_job_status: the status fetch and what follows it without
\* another blocking call; on "return" the caller reads job_result["query_result_id"]
PollJobStatus ==
    /\ pc = "poll"
    /\ \E resp \in Responses(TerminalJobBodies
                              \cup IF Count(trace, IsPendingFetch) < MaxPending
                                   THEN PendingJobBodies ELSE {}) :
        LET parts == JobStatusPath IN
        /\ trace' = Append(trace, HttpCall("GET", parts, JsonNull, resp))
        /\ IF resp.status # 200
           THEN Finish(HTTPError(resp, parts)) /\ UNCHANGED result_id
           ELSE IF "job" \notin DOMAIN resp.body
           THEN Finish(KeyError("job")) /\ UNCHANGED result_id
           ELSE IF "status" \notin DOMAIN resp.body.job
           THEN Finish(KeyError("status")) /\ UNCHANGED result_id
           ELSE CASE PollDecision(resp.body.job.status) = "return" ->
                       IF "query_result_id" \notin DOMAIN resp.body.job
                       THEN Finish(KeyError("query_result_id")) /\ UNCHANGED result_id
                       ELSE /\ result_id' = resp.body.job.query_result_id
                            /\ pc' = "fetch"
                            /\ UNCHANGED outcome
                  [] PollDecision(resp.body.job.status) = "raise" ->
                       Finish(QueryExecutionFailed(resp.body.job)) /\ UNCHANGED result_id
                  [] OTHER ->
                       /\ pc' = "sleep"
                       /\ UNCHANGED <<outcome, result_id>>
    /\ UNCHANGED <<client, op, args, query_id, job_data, job_id, fmt>>

\* time.sleep(POLL_INTERVAL), then around the loop
Sleep ==
    /\ pc = "sleep"
    /\ trace' = Append(trace, SleepCall)
    /\ pc' = "poll"
    /\ UNCHANGED <<client, op, args, query_id, job_data, job_id, result_id, outcome, fmt>>

\* the query text handed to the normalizer after the result fetch
FormatQueryArg == IF op = "execute_query" THEN args.query ELSE ""

\* f"{self.base_url}/api/query_results/{result_id}"
ResultPathByJobId == <<"query_results", job_id>>
ResultPath == <<"query_results", result_id>>

\* a result fetch that is tried once more after a non-success status
FetchResultRetrying ==
    /\ pc = "fetch"
    /\ \E resp \in Responses(ResultBodies) :
        LET parts == ResultPath IN
        /\ trace' = Append(trace, HttpCall("GET", parts, JsonNull, resp))
        /\ IF resp.status # 200 /\ Count(trace, IsResultFetch) = 0
           THEN UNCHANGED <<pc, outcome>>
           ELSE Finish(IF resp.status # 200 THEN HTTPError(resp, parts)
                       ELSE FormatQueryResult(resp.body, FormatQueryArg))
    /\ UNCHANGED <<client, op, args, query_id, job_data, job_id, result_id, fmt>>

\* the result fetch and the normalization of its answer
FetchResult ==
    /\ pc = "fetch"
    /\ \E resp \in Responses(ResultBodies) :
        LET parts == ResultPath IN
        /\ trace' = Append(trace, HttpCall("GET", parts, JsonNull, resp))
        /\ Finish(IF resp.status # 200 THEN HTTPError(resp, parts)
                  ELSE FormatQueryResult(resp.body, FormatQueryArg))
    /\ UNCHANGED <<client, op, args, query_id, job_data, job_id, result_id, fmt>>

\* a client that remembers the job of the call that just ended
ReturnKeepingJob ==
    /\ pc = "done"
    /\ pc' = "idle"
    /\ op' = "none"
    /\ args' = EmptyDict
    /\ query_id' = None
    /\ job_data' = JsonNull
    /\ outcome' = NoOutcome
    /\ trace' = <<>>
    /\ UNCHANGED <<client, job_id, result_id, fmt>>

\* the call is over (its value returned or its exception re-raised to the
\* caller); the client is ready for the next call
ReturnToCaller ==
    /\ pc = "done"
    /\ pc' = "idle"
    /\ op' = "none"
    /\ args' = EmptyDict
    /\ query_id' = None
    /\ job_data' = JsonNull
    /\ job_id' = None
    /\ result_id' = None
    /\ outcome' = NoOutcome
    /\ trace' = <<>>
    /\ UNCHANGED <<client, fmt>>

----------------------------------------------------------------------------

\* RedashClient.__init__ with REDASH_BASE_URL and REDASH_API_KEY set
NewClient ==
    [base_url |-> "https://redash", api_key |-> "k",
     data_source_id |-> DEFAULT_DATA_SOURCE_ID,
     headers |-> [Authorization |-> "Key k", ContentType |-> "application/json"]]

FmtIdle == [pc |-> "unused"]

Reqs == 1..MaxRequests
NoHandler == [endpoint |-> "none"]
NoResponse == [status |-> 0]

\* no request has reached the gateway
GatewayIdle ==
    /\ phase = [r \in Reqs |-> "new"]
    /\ handler = NoHandler
    /\ response = NoResponse

Init ==
    /\ submitted = <<>>
    /\ creates = <<>>
    /\ GatewayIdle
    /\ client = NewClient
    /\ pc = "idle"
    /\ op = "none"
    /\ args = EmptyDict
    /\ query_id = None
    /\ job_data = JsonNull
    /\ job_id = None
    /\ result_id = None
    /\ outcome = NoOutcome
    /\ trace = <<>>
    /\ fmt = FmtIdle

\* the client called directly, without the gateway
Direct == UNCHANGED <<submitted, creates, phase, handler, response>>

Next ==
    \/ ListDataSources /\ Direct
    \/ CreateQuery /\ Direct
    \/ TriggerQuery /\ Direct
    \/ TriggerPredefined /\ Direct
    \/ PollJobStatus /\ Direct
    \/ Sleep /\ Direct
    \/ FetchResult /\ Direct
    \/ ReturnToCaller /\ Direct

Spec == Init /\ [][Next]_vars

----------------------------------------------------------------------------
(* The client called again and again, with a record of what it was asked and
   of the query resources it asked the service to create *)

\* what the step just taken adds to the record of execute_query calls and of
\* create-query calls
Observe ==
    /\ submitted' = IF pc = "idle" /\ op' = "execute_query"
                    THEN Append(submitted, args'.query) ELSE submitted
    /\ creates' = IF Len(trace') > Len(trace) /\ IsCreate(trace'[Len(trace')])
                  THEN Append(creates, trace'[Len(trace')].json) ELSE creates

Counted == Observe /\ UNCHANGED <<phase, handler, response>>

\* the query texts of the repeated calls
CallTexts == {"", "SELECT 1"}

NextCalls ==
    \/ ListDataSources /\ Counted
    \/ Len(submitted) < MaxCalls /\ CreateQuery /\ args'.query \in CallTexts /\ Counted
    \/ TriggerQuery /\ Counted
    \/ TriggerPredefined /\ Counted
    \/ PollJobStatus /\ Counted
    \/ Sleep /\ Counted
    \/ FetchResult /\ Counted
    \/ ReturnToCaller /\ Counted

SpecCalls == Init /\ [][NextCalls]_vars

----------------------------------------------------------------------------
(* The request gateway (app/main.py): the handlers get_data_sources,
   ask_question and ask_predefined_question over the one module-level client.
   The handlers are coroutines that call the client without awaiting anything,
   so a handler that has started runs to its response before the event loop
   starts another. *)

Questions == {"", "SELECT 2"}
SqlTexts == {"", "SELECT 1"}

\* the requests that pass the schemas QueryRequest and PredefinedQueryRequest; an
\* sql_query or parameters field that is absent or null is a missing key
Requests ==
    {[endpoint |-> "data-sources"]}
        \cup {[endpoint |-> "ask", question |-> q] : q \in Questions}
        \cup {[endpoint |-> "ask", question |-> q, sql_query |-> t] :
                 q \in Questions, t \in SqlTexts}
        \cup {[endpoint |-> "predefined", query_id |-> i] : i \in PredefinedIds}
        \cup {[endpoint |-> "predefined", query_id |-> i, parameters |-> m] :
                 i \in PredefinedIds, m \in ParameterMaps}

\* an /ask that submits the sql_query field whenever the request has one
SqlQueryAsGiven(request) ==
    IF "sql_query" \in DOMAIN request THEN request.sql_query ELSE request.question

\* sql_query = request.sql_query or request.question
SqlQuery(request) ==
    IF "sql_query" \in DOMAIN request /\ request.sql_query # ""
    THEN request.sql_query ELSE request.question

\* execute_predefined_query(query_id, request.parameters)
PredefinedArgs(request) == [k \in DOMAIN request \ {"endpoint"} |-> request[k]]

Answer == "Here are the results from your query"

Ok(body) == [status |-> 200, body |-> body]

\* a gateway that tells the kinds of failure apart by status code
ErrorByKind(prefix, exc) ==
    [status |-> IF exc.type = "HTTPError" THEN 502 ELSE 500, detail |-> prefix \o exc.msg]

\* raise HTTPException(status_code=500, detail=f"<prefix>{str(e)}")
InternalError(prefix, exc) == [status |-> 500, detail |-> prefix \o exc.msg]

ValueError(msg) == [type |-> "ValueError", msg |-> <<msg>>]

\* get_data_sources, after the client call
DataSourcesResponse(out) ==
    IF out.kind = "raise"
    THEN InternalError(<<"Failed to fetch data sources: ">>, out.exc)
    ELSE Ok([data_sources |-> out.value])

\* ask_question, after the client call
AskResponse(request, out) ==
    LET prefix == <<"Query execution failed: ">> IN
    IF out.kind = "raise"
    THEN InternalError(prefix, out.exc)
    ELSE IF "query_result" \notin DOMAIN out.value
    THEN InternalError(prefix, ValueError("Invalid response format from Redash"))
    ELSE Ok([answer |-> Answer, sql_query |-> SqlQuery(request),
             data |-> out.value.query_result])

\* ask_predefined_question, after the client call
PredefinedResponse(out) ==
    IF out.kind = "raise"
    THEN InternalError(<<>>, out.exc)
    ELSE LET query_result == Get(out.value, "query_result", EmptyDict) IN
         IF ~Truthy(query_result)
         THEN InternalError(<<>>, ValueError("No query result in response"))
         ELSE Ok([answer |-> Answer, sql_query |-> Get(query_result, "query", ""),
                  data |-> query_result])

HandlerResponse(request, out) ==
    CASE request.endpoint = "data-sources" -> DataSourcesResponse(out)
      [] request.endpoint = "ask" -> AskResponse(request, out)
      [] request.endpoint = "predefined" -> PredefinedResponse(out)

\* a caller sends request r
Arrive(r) ==
    /\ phase[r] = "new"
    /\ phase' = [phase EXCEPT ![r] = "waiting"]
    /\ UNCHANGED <<client, pc, op, args, query_id, job_data, job_id, result_id, outcome,
                   trace, fmt, submitted, creates, handler, response>>

\* the event loop, running no handler, starts the handler of request r
StartHandler(r) ==
    /\ phase[r] = "waiting"
    /\ handler = NoHandler
    /\ phase' = [phase EXCEPT ![r] = "running"]
    /\ \E request \in Requests : handler' = request
    /\ UNCHANGED <<client, pc, op, args, query_id, job_data, job_id, result_id, outcome,
                   trace, fmt, submitted, creates, response>>

\* the running handler is inside its client call
Handling ==
    /\ handler # NoHandler
    /\ response = NoResponse
    /\ UNCHANGED <<submitted, creates, phase, handler, response>>

\* redash_client.list_data_sources()
GetDataSources ==
    /\ handler.endpoint = "data-sources"
    /\ Handling
    /\ ListDataSources

\* redash_client.execute_query(sql_query)
AskQuestion ==
    /\ handler.endpoint = "ask"
    /\ Handling
    /\ CreateQuery
    /\ args' = [query |-> SqlQuery(handler)]

\* redash_client.execute_predefined_query(query_id, request.parameters)
AskPredefinedQuestion ==
    /\ handler.endpoint = "predefined"
    /\ Handling
    /\ TriggerPredefined
    /\ args' = PredefinedArgs(handler)

\* the client call has ended: the handler returns its envelope or raises its
\* HTTPException
Respond ==
    /\ handler # NoHandler
    /\ pc = "done"
    /\ response = NoResponse
    /\ response' = HandlerResponse(handler, outcome)
    /\ UNCHANGED <<client, pc, op, args, query_id, job_data, job_id, result_id, outcome,
                   trace, fmt, submitted, creates, phase, handler>>

\* the response of request r is sent and its handler's frame is gone
Close(r) ==
    /\ phase[r] = "running"
    /\ response # NoResponse
    /\ ReturnToCaller
    /\ phase' = [phase EXCEPT ![r] = "served"]
    /\ handler' = NoHandler
    /\ response' = NoResponse
    /\ UNCHANGED <<submitted, creates>>

NextGateway ==
    \/ \E r \in Reqs : Arrive(r)
    \/ \E r \in Reqs : StartHandler(r)
    \/ GetDataSources
    \/ AskQuestion
    \/ AskPredefinedQuestion
    \/ Handling /\ TriggerQuery
    \/ Handling /\ PollJobStatus
    \/ Handling /\ Sleep
    \/ Handling /\ FetchResult
    \/ Respond
    \/ \E r \in Reqs : Close(r)

SpecGateway == Init /\ [][NextGateway]_vars

----------------------------------------------------------------------------
(* The normalizer on its own: every shape of raw result, normalized once and
   then once more *)

PayloadKeys == {"id", "query", "data", "data_source_id", "runtime", "retrieved_at"}

SampleValue(key) ==
    CASE key = "id" -> "42"
      [] key = "query" -> "SELECT 0"
      [] key = "data_source_id" -> "6"
      [] key = "runtime" -> 5
      [] key = "retrieved_at" -> "t1"

DataDicts ==
    {[k \in K |-> IF k = "columns" THEN <<"c">> ELSE r] :
        K \in SUBSET {"columns", "rows"}, r \in RowLists}

\* every subset of the fields of a result payload
RawPayloads ==
    {[k \in K |-> IF k = "data" THEN d ELSE SampleValue(k)] :
        K \in SUBSET PayloadKeys, d \in DataDicts}

\* payloads whose data field is null
NullDataPayloads ==
    {[k \in K \cup {"data"} |-> IF k = "data" THEN JsonNull ELSE SampleValue(k)] :
        K \in SUBSET {"id", "runtime"}}

\* the payload given directly, nested under query_result, or a null query_result
RawResults ==
    LET payloads == RawPayloads \cup NullDataPayloads IN
    payloads \cup {[query_result |-> p] : p \in payloads \cup {JsonNull}}

InitFormat ==
    /\ submitted = <<>>
    /\ creates = <<>>
    /\ GatewayIdle
    /\ client = NewClient
    /\ pc = "idle"
    /\ op = "none"
    /\ args = EmptyDict
    /\ query_id = None
    /\ job_data = JsonNull
    /\ job_id = None
    /\ result_id = None
    /\ outcome = NoOutcome
    /\ trace = <<>>
    /\ \E raw \in RawResults, q \in Queries :
          fmt = [pc |-> "input", result |-> raw, query |-> q]

Normalize ==
    /\ fmt.pc = "input"
    /\ fmt' = [pc |-> "once", result |-> fmt.result, query |-> fmt.query,
               out |-> FormatQueryResult(fmt.result, fmt.query)]
    /\ UNCHANGED <<client, pc, op, args, query_id, job_data, job_id, result_id, outcome, trace,
                   submitted, creates, phase, handler, response>>

\* the normalized output normalized again, with the same query text or with ""
NormalizeAgain ==
    /\ fmt.pc = "once"
    /\ fmt.out.kind = "return"
    /\ \E q2 \in {fmt.query, ""} :
          fmt' = [pc |-> "twice", result |-> fmt.result, query |-> fmt.query,
                  out |-> fmt.out, query2 |-> q2,
                  out2 |-> FormatQueryResult(fmt.out.value, q2)]
    /\ UNCHANGED <<client, pc, op, args, query_id, job_data, job_id, result_id, outcome, trace,
                   submitted, creates, phase, handler, response>>

NextFormat == Normalize \/ NormalizeAgain

SpecFormat == InitFormat /\ [][NextFormat]_vars

----------------------------------------------------------------------------
(* Properties *)

StatusFetches == SelectSeq(trace, IsStatusFetch)
LoopRunning == pc \in {"poll", "sleep"}
Last(seq) == seq[Len(seq)]

\* the spec's failure taxonomy, read off the exception a call raised
ErrorClass(exc) ==
    CASE exc.type = "HTTPError" -> "UpstreamError"
      [] exc.type = "Exception" /\ exc.msg[1] = "Query execution failed: " ->
            "QueryExecutionError"
      [] exc.type = "Exception"
            /\ exc.msg[1] \in {"Invalid response format. Keys: ", "Invalid response format: ",
                               "No query result in response"} -> "ProtocolError"
      [] OTHER -> "Other"

\* C1: the polling loop is an unbounded wait. Only a non-terminal status leads to
\* another status fetch; while every status fetched so far was non-terminal the
\* loop has not exited, however many there were; and when a terminal status comes
\* after N non-terminal ones the loop has exited after exactly N+1 fetches.
PollingIsUnbounded ==
    LET n == Len(StatusFetches) IN
    /\ \A i \in 1..(n - 1) : IsPendingFetch(StatusFetches[i])
    /\ n > 0 /\ IsPendingFetch(StatusFetches[n]) => LoopRunning
    /\ n > 0 /\ IsTerminalFetch(StatusFetches[n]) =>
          /\ ~LoopRunning
          /\ n = Count(trace, IsPendingFetch) + 1

\* a terminal status arrived after MaxPending non-terminal ones and ended the loop
PollingEndsAfterLongWait ==
    /\ Count(trace, IsPendingFetch) = MaxPending
    /\ Len(StatusFetches) = MaxPending + 1
    /\ IsTerminalFetch(Last(StatusFetches))
    /\ ~LoopRunning

\* C2: a sleep of the fixed interval follows each status fetch that reported a
\* non-terminal status and happens nowhere else (so none after a completed
\* status); sleeps and non-terminal statuses are equal in number; no status
\* fetch follows a terminal status.
SleepExactlyAfterPending ==
    LET n == Len(trace) IN
    /\ \A i \in 1..n : IsSleep(trace[i]) =>
          /\ i > 1
          /\ IsPendingFetch(trace[i - 1])
          /\ trace[i].seconds = POLL_INTERVAL
    /\ \A i \in 1..n : IsPendingFetch(trace[i]) =>
          IF i < n THEN IsSleep(trace[i + 1]) ELSE pc = "sleep"
    /\ pc # "sleep" => Count(trace, IsSleep) = Count(trace, IsPendingFetch)
    /\ \A i \in 1..n : IsTerminalFetch(trace[i]) =>
          /\ \A j \in (i + 1)..n : ~IsStatusFetch(trace[j]) /\ ~IsSleep(trace[j])
          /\ ~LoopRunning

\* a completed status after two sleeps: the loop returned at once, without a third
CompletedAfterTwoSleeps ==
    /\ pc = "fetch"
    /\ Count(trace, IsSleep) = 2
    /\ ReportedStatus(Last(trace)) = COMPLETED

\* C3: a status fetch that reports failed ends the call with the exception
\* "Query execution failed: <error>", <error> being the job's error field or
\* "Unknown error" without one; it is the last outbound call (no result fetch
\* follows) and the enclosing operation raises that same exception.
FailedJobRaises ==
    \A i \in 1..Len(trace) :
        IsStatusFetch(trace[i]) /\ ReportedStatus(trace[i]) = FAILED =>
            LET job == trace[i].body.job IN
            /\ i = Len(trace)
            /\ pc = "done"
            /\ outcome.kind = "raise"
            /\ ErrorClass(outcome.exc) = "QueryExecutionError"
            /\ outcome.exc.msg[2] =
                  (IF "error" \in DOMAIN job THEN job.error ELSE "Unknown error")

\* execute_predefined_query ended by a failed job that carried an error text
PredefinedJobFailedWithText ==
    /\ op = "execute_predefined_query"
    /\ pc = "done"
    /\ Len(trace) > 2
    /\ IsStatusFetch(Last(trace))
    /\ ReportedStatus(Last(trace)) = FAILED
    /\ "error" \in DOMAIN Last(trace).body.job
    /\ outcome.exc.msg = <<"Query execution failed: ", "boom">>

\* C4: in execute_query, a trigger response that contains query_result (with or
\* without a job handle beside it) ends the call at once with the normalization
\* of that response: no status fetch, no result fetch, and a returned result
\* has the id and the rows of the immediate result.
ImmediateResultSkipsPolling ==
    op = "execute_query" /\ "query_result" \in DOMAIN job_data =>
        /\ pc = "done"
        /\ Len(trace) = 2
        /\ IsTrigger(trace[2])
        /\ outcome = FormatQueryResult(job_data, args.query)
        /\ outcome.kind = "return" =>
              LET got == outcome.value.query_result
                  sent == job_data.query_result
              IN
              /\ "id" \in DOMAIN sent => got.id = sent.id
              /\ "data" \in DOMAIN sent /\ "rows" \in DOMAIN sent.data =>
                    got.data.rows = sent.data.rows

\* the trigger answered with both a job handle and an immediate result
ImmediateResultBesideJob ==
    /\ op = "execute_query"
    /\ pc = "done"
    /\ "query_result" \in DOMAIN job_data
    /\ "job" \in DOMAIN job_data
    /\ outcome.kind = "return"
    /\ outcome.value.query_result.id = "42"
    /\ Len(outcome.value.query_result.data.rows) = MaxRows

\* the outbound calls of execute_query come in the order create-query, trigger,
\* status fetches for the job the trigger named, one result fetch for the result
\* the completed job named, and the fetched body is what gets normalized
AsyncCallOrder ==
    LET n == Len(trace) IN
    /\ n > 0 => IsCreate(trace[1]) /\ trace[1].method = "POST"
    /\ \A i \in 1..n :
        /\ ~IsListFetch(trace[i])
        /\ IsCreate(trace[i]) => i = 1
        /\ IsTrigger(trace[i]) =>
              /\ i = 2
              /\ trace[1].status = 200
              /\ trace[i].url = Url(<<"queries", trace[1].body.id, "results">>)
        /\ IsStatusFetch(trace[i]) =>
              /\ i > 2
              /\ trace[2].status = 200
              /\ "query_result" \notin DOMAIN trace[2].body
              /\ trace[i].url = Url(<<"jobs", trace[2].body.job.id>>)
        /\ IsStatusFetch(trace[i]) /\ ReportedStatus(trace[i]) = COMPLETED
              /\ "query_result_id" \in DOMAIN trace[i].body.job =>
              IF i = n THEN pc = "fetch" ELSE i + 1 = n /\ IsResultFetch(trace[n])
        /\ IsResultFetch(trace[i]) =>
              /\ i = n
              /\ i > 3
              /\ pc = "done"
              /\ IsStatusFetch(trace[i - 1])
              /\ ReportedStatus(trace[i - 1]) = COMPLETED
              /\ trace[i].url = Url(<<"query_results", trace[i - 1].body.job.query_result_id>>)
              /\ trace[i].status = 200 =>
                    outcome = FormatQueryResult(trace[i].body, args.query)

\* the call returned a result it got from a result fetch
ReturnedFetchedResult ==
    /\ pc = "done"
    /\ outcome.kind = "return"
    /\ Len(trace) > 0
    /\ IsResultFetch(Last(trace))

\* C5 as stated: the call order of the asynchronous path, and the returned
\* QueryResult has as its id the result identifier the completed job reported.
AsyncPathReturnsJobResultId ==
    op = "execute_query" =>
        /\ AsyncCallOrder
        /\ ReturnedFetchedResult => outcome.value.query_result.id = result_id

\* C5, amended: the call order of the asynchronous path, and the returned
\* QueryResult has as its id the id field of the payload the result fetch
\* answered with (None when that payload has no id).
AsyncPathReturnsFetchedId ==
    op = "execute_query" =>
        /\ AsyncCallOrder
        /\ ReturnedFetchedResult =>
              LET body == Last(trace).body
                  payload == Get(body, "query_result", body)
              IN outcome.value.query_result.id = Get(payload, "id", None)

\* create, trigger, two status fetches with a sleep between, the result fetch:
\* the job reported result 99 and the result came back under that id
AsyncPathCompleted ==
    /\ op = "execute_query"
    /\ ReturnedFetchedResult
    /\ Len(trace) = 6
    /\ IsSleep(trace[4])
    /\ result_id = "99"
    /\ outcome.value.query_result.id = "99"

\* C6: execute_predefined_query never issues a create-query call, and when the
\* trigger response has no job handle (empty, or carrying an immediate
\* query_result instead) it fails with the invalid-response-format error and
\* the trigger stays its only outbound call.
PredefinedNeedsJobHandle ==
    op = "execute_predefined_query" =>
        /\ Count(trace, IsCreate) = 0
        /\ IsTrigger(trace[1])
        /\ trace[1].url[4] = args.query_id
        /\ trace[1].status = 200 /\ "job" \notin DOMAIN trace[1].body =>
              /\ pc = "done"
              /\ Len(trace) = 1
              /\ outcome.kind = "raise"
              /\ ErrorClass(outcome.exc) = "ProtocolError"
              /\ outcome = PredefinedFormatError(trace[1].body)

\* the predefined trigger answered with an immediate result and no job
PredefinedGotImmediateResult ==
    /\ op = "execute_predefined_query"
    /\ pc = "done"
    /\ "query_result" \in DOMAIN job_data
    /\ "job" \notin DOMAIN job_data
    /\ Truthy(job_data.query_result)
    /\ outcome.kind = "raise"

\* C7: execute_query fails with the invalid-response-format error when the
\* trigger answers with success and neither query_result nor job, and nothing is
\* fetched afterwards; the exception differs in class from the one a
\* non-success HTTP status raises and from the one a failed job raises.
InvalidTriggerIsProtocolError ==
    op = "execute_query" /\ pc = "done" =>
        LET last == Last(trace) IN
        /\ Len(trace) > 1 /\ trace[2].status = 200
              /\ "query_result" \notin DOMAIN trace[2].body
              /\ "job" \notin DOMAIN trace[2].body =>
              /\ Len(trace) = 2
              /\ outcome.kind = "raise"
              /\ ErrorClass(outcome.exc) = "ProtocolError"
              /\ outcome = InvalidFormatError(trace[2].body)
        /\ last.status # 200 =>
              outcome.kind = "raise" /\ ErrorClass(outcome.exc) = "UpstreamError"
        /\ IsStatusFetch(last) /\ ReportedStatus(last) = FAILED =>
              outcome.kind = "raise" /\ ErrorClass(outcome.exc) = "QueryExecutionError"

\* the trigger answered 200 with a body that has neither key
TriggerAnsweredNeither ==
    /\ op = "execute_query"
    /\ pc = "done"
    /\ job_data = [message |-> "queued"]
    /\ outcome.exc.msg = <<"Invalid response format. Keys: ", "message">>

\* the raw result is a result payload (any subset of its fields), given
\* directly or nested under query_result
IsPayloadInput(raw) ==
    IF "query_result" \in DOMAIN raw THEN raw.query_result \in RawPayloads
    ELSE raw \in RawPayloads
PayloadOf(raw) == Get(raw, "query_result", raw)

\* every key of a QueryResult is there, a missing field at its default and a
\* given one as given
HasEveryKey(p, got) ==
    /\ DOMAIN got = PayloadKeys
    /\ DOMAIN got.data = {"columns", "rows"}
    /\ "runtime" \notin DOMAIN p => got.runtime = 0
    /\ "data" \notin DOMAIN p \/ "columns" \notin DOMAIN p.data => got.data.columns = <<>>
    /\ "data" \notin DOMAIN p \/ "rows" \notin DOMAIN p.data => got.data.rows = <<>>
    /\ got.id = Get(p, "id", None)
    /\ got.data_source_id = Get(p, "data_source_id", None)
    /\ got.retrieved_at = Get(p, "retrieved_at", None)
    /\ "runtime" \in DOMAIN p => got.runtime = p.runtime
    /\ "data" \in DOMAIN p /\ "rows" \in DOMAIN p.data => got.data.rows = p.data.rows
    /\ "data" \in DOMAIN p /\ "columns" \in DOMAIN p.data =>
          got.data.columns = p.data.columns

\* C8 as stated: for every raw result made of any subset of the payload fields,
\* nested or direct, and for {} in particular, normalization yields a
\* QueryResult with the keys id, query, data.columns, data.rows,
\* data_source_id, runtime and retrieved_at, the missing ones at their defaults.
NormalizationNeverOmits ==
    fmt.pc = "once" /\ IsPayloadInput(fmt.result) =>
        /\ fmt.out.kind = "return"
        /\ DOMAIN fmt.out.value = {"query_result"}
        /\ HasEveryKey(PayloadOf(fmt.result), fmt.out.value.query_result)

\* C8, amended: for every raw result made of a non-empty subset of the payload
\* fields, nested or direct, normalization yields a QueryResult with every key,
\* the missing ones at their defaults; given the empty payload ({} itself or
\* under query_result) it raises "No query result in response" instead.
NormalizationFillsDefaults ==
    fmt.pc = "once" /\ IsPayloadInput(fmt.result) =>
        IF PayloadOf(fmt.result) = EmptyDict
        THEN fmt.out = NoResultError
        ELSE /\ fmt.out.kind = "return"
             /\ DOMAIN fmt.out.value = {"query_result"}
             /\ HasEveryKey(PayloadOf(fmt.result), fmt.out.value.query_result)

\* a payload made of its timestamp alone came out with every other key defaulted
OnlyTimestampNormalized ==
    /\ fmt.pc = "once"
    /\ fmt.result = [query_result |-> [retrieved_at |-> "t1"]]
    /\ fmt.query = ""
    /\ fmt.out.kind = "return"
    /\ fmt.out.value.query_result =
          [id |-> None, query |-> "", data |-> [columns |-> <<>>, rows |-> <<>>],
           data_source_id |-> None, runtime |-> 0, retrieved_at |-> "t1"]

\* C9: normalization is idempotent: the normalized output, normalized again
\* with the same query text or with the empty one, succeeds and equals the
\* first output.
NormalizationIdempotent ==
    fmt.pc = "twice" => fmt.out2 = fmt.out

\* a nested result with columns and rows, normalized with a query text and then
\* again with the empty text
RenormalizedWithEmptyQuery ==
    /\ fmt.pc = "twice"
    /\ fmt.query = "SELECT 1"
    /\ fmt.query2 = ""
    /\ "query_result" \in DOMAIN fmt.result
    /\ fmt.out2.kind = "return"
    /\ fmt.out2.value.query_result.query = "SELECT 1"
    /\ fmt.out2.value.query_result.data.columns = <<"c">>
    /\ Len(fmt.out2.value.query_result.data.rows) = MaxRows

\* a result payload is located under the query_result key, or else as the
\* response object itself
PayloadLocated(raw) ==
    IF "query_result" \in DOMAIN raw THEN raw.query_result # JsonNull ELSE TRUE

\* C10: the normalizer fails with the no-query-result error exactly when no
\* payload is located at either nesting level, and succeeds whenever one is.
NormalizerFailsOnlyWithoutPayload ==
    fmt.pc = "once" =>
        /\ ~PayloadLocated(fmt.result) => fmt.out = NoResultError
        /\ PayloadLocated(fmt.result) => fmt.out.kind = "return"

\* the data field of a payload, when there is one, is an object
DataIsObject(p) == "data" \in DOMAIN p => p.data # JsonNull

\* C10, amended: the normalizer raises "No query result in response" exactly
\* when the payload it locates (the value under query_result, else the response
\* object itself) is null or empty; it succeeds whenever that payload is a
\* non-empty object whose data field, if any, is an object.
NormalizerFailsOnEmptyPayload ==
    fmt.pc = "once" =>
        LET p == PayloadOf(fmt.result) IN
        /\ fmt.out = NoResultError <=> (p = JsonNull \/ p = EmptyDict)
        /\ p # JsonNull /\ p # EmptyDict /\ DataIsObject(p) => fmt.out.kind = "return"

\* an empty object under query_result was refused
EmptyNestedPayloadRefused ==
    /\ fmt.pc = "once"
    /\ fmt.result = [query_result |-> EmptyDict]
    /\ fmt.out = NoResultError

\* a result payload the normalizer refuses: null, empty, or with a null data field
PayloadRefused(body) ==
    LET p == Get(body, "query_result", body) IN ~Truthy(p) \/ ~DataIsObject(p)

\* the answer to an outbound call does not have the shape the client relies on
ContractViolated(e) ==
    /\ e.status = 200
    /\ \/ IsCreate(e) /\ "id" \notin DOMAIN e.body
       \/ IsTrigger(e) /\ op = "execute_query"
             /\ IF "query_result" \in DOMAIN e.body THEN PayloadRefused(e.body)
                ELSE IF "job" \in DOMAIN e.body THEN "id" \notin DOMAIN e.body.job
                ELSE TRUE
       \/ IsTrigger(e) /\ op = "execute_predefined_query"
             /\ ("job" \notin DOMAIN e.body \/ "id" \notin DOMAIN e.body.job)
       \/ IsStatusFetch(e)
             /\ \/ "job" \notin DOMAIN e.body
                \/ "status" \notin DOMAIN e.body.job
                \/ /\ e.body.job.status = COMPLETED
                   /\ "query_result_id" \notin DOMAIN e.body.job
       \/ IsResultFetch(e) /\ PayloadRefused(e.body)

\* C12: nothing is retried. Within one execute_query or execute_predefined_query
\* call, an outbound call answered with a non-success HTTP status or with a
\* contract-violating body is the last outbound call of that call, and the call
\* has raised (an HTTPError for a non-success status); the create-query, trigger
\* and result-fetch calls are each made at most once, so only status fetches
\* repeat.
NothingRetried ==
    op \in {"execute_query", "execute_predefined_query"} =>
        /\ Count(trace, IsCreate) <= 1
        /\ Count(trace, IsTrigger) <= 1
        /\ Count(trace, IsResultFetch) <= 1
        /\ \A i \in 1..Len(trace) :
              IsHttp(trace[i]) /\ (trace[i].status # 200 \/ ContractViolated(trace[i])) =>
                  /\ i = Len(trace)
                  /\ pc = "done"
                  /\ outcome.kind = "raise"
                  /\ trace[i].status # 200 => ErrorClass(outcome.exc) = "UpstreamError"

\* after a sleep and a second status fetch the result fetch was answered 404: the
\* call raised with that fetch as its only result fetch
ResultFetchFailedOnce ==
    /\ pc = "done"
    /\ IsResultFetch(Last(trace))
    /\ Last(trace).status = 404
    /\ Count(trace, IsResultFetch) = 1
    /\ Count(trace, IsStatusFetch) = 2
    /\ outcome.kind = "raise"
    /\ outcome.exc.msg[1] = "Client Error for url"

\* C13: every execute_query call makes its own create-query call, whatever was
\* submitted before: the i-th call's create carries the i-th submitted text and
\* the name derived from that text's hash, so k calls with one text make k
\* creates with one name; the running call's first outbound call is its own
\* create, and the trigger goes to the id that create was answered with.
EveryCallCreates ==
    /\ Len(creates) = Len(submitted)
    /\ \A i \in 1..Len(creates) :
          /\ creates[i].query = submitted[i]
          /\ creates[i].name = "MCP Query - " \o GetQueryHash8(submitted[i])
    /\ \A i, j \in 1..Len(creates) :
          submitted[i] = submitted[j] => creates[i].name = creates[j].name
    /\ op = "execute_query" =>
          /\ Len(trace) > 0
          /\ IsCreate(trace[1])
          /\ trace[1].json = Last(creates)
          /\ \A i \in 1..Len(trace) :
                IsTrigger(trace[i]) => trace[i].url[4] = trace[1].body.id

\* the same text submitted twice, the second call as far as its result fetch:
\* two create-query calls under the one name
SameTextCreatedTwice ==
    /\ submitted = <<"SELECT 1", "SELECT 1">>
    /\ Len(creates) = 2
    /\ creates[1].name = "MCP Query - b1698e52"
    /\ creates[2].name = "MCP Query - b1698e52"
    /\ pc = "done"
    /\ outcome.kind = "return"
    /\ IsResultFetch(Last(trace))

\* C17 as stated: the trigger of execute_predefined_query goes to the given query
\* id, and its payload carries the parameters mapping exactly when one is given,
\* the empty mapping included.
PredefinedPayloadWhenPresent ==
    op = "execute_predefined_query" =>
        /\ IsTrigger(trace[1])
        /\ trace[1].url = Url(<<"queries", args.query_id, "results">>)
        /\ trace[1].json = (IF "parameters" \in DOMAIN args
                            THEN [parameters |-> args.parameters] ELSE EmptyDict)

\* C17, amended: the trigger of execute_predefined_query goes to the given query
\* id, and its payload carries the parameters mapping exactly when a non-empty
\* mapping is given; for an absent and for an empty mapping the payload is the
\* empty object.
PredefinedPayloadWhenNonEmpty ==
    op = "execute_predefined_query" =>
        /\ IsTrigger(trace[1])
        /\ trace[1].url = Url(<<"queries", args.query_id, "results">>)
        /\ trace[1].json = (IF "parameters" \in DOMAIN args /\ args.parameters # EmptyDict
                            THEN [parameters |-> args.parameters] ELSE EmptyDict)

\* a predefined query triggered with the empty mapping, sent with an empty payload
EmptyParametersOmitted ==
    /\ op = "execute_predefined_query"
    /\ "parameters" \in DOMAIN args
    /\ args.parameters = EmptyDict
    /\ trace[1].json = EmptyDict
    /\ pc = "poll"

\* C18: no call changes the client's base URL, API key, headers or default data
\* source: the client is as constructed in every state, every outbound call
\* carries the constructed headers and base URL, and an execute_query call
\* without a data source id creates its query on the default data source,
\* whatever earlier calls were given.
ClientConfigurationFixed ==
    /\ client = NewClient
    /\ \A i \in 1..Len(trace) :
          IsHttp(trace[i]) =>
              /\ trace[i].headers = NewClient.headers
              /\ trace[i].url[1] = NewClient.base_url
    /\ op = "execute_query" /\ "data_source_id" \notin DOMAIN args =>
          Last(creates).data_source_id = DEFAULT_DATA_SOURCE_ID

\* a call on data source 7 that failed, then a call without a data source id
DefaultUsedAfterExplicitSource ==
    /\ Len(creates) = 2
    /\ creates[1].data_source_id = 7
    /\ creates[2].data_source_id = DEFAULT_DATA_SOURCE_ID
    /\ op = "execute_query"
    /\ "data_source_id" \notin DOMAIN args
    /\ pc = "trigger"

\* the last Len(part) elements of seq are part
EndsWith(seq, part) ==
    /\ Len(seq) >= Len(part)
    /\ SubSeq(seq, Len(seq) - Len(part) + 1, Len(seq)) = part

\* C11: on each of the three endpoints, a handler whose client call raised
\* (whatever the step and the kind of failure) responds with status 500 and a
\* detail text that ends with the message of that exception; a handler responds
\* with the success envelope only when the client call returned, and with
\* nothing but the success envelope or that 500.
FailuresBecomeInternalError ==
    response # NoResponse =>
        /\ response.status \in {200, 500}
        /\ outcome.kind = "raise" =>
              /\ response.status = 500
              /\ EndsWith(response.detail, outcome.exc.msg)
        /\ response.status = 500 => DOMAIN response = {"status", "detail"}
        /\ response.status = 200 =>
              /\ outcome.kind = "return"
              /\ DOMAIN response = {"status", "body"}
              /\ IF handler.endpoint = "data-sources"
                 THEN response.body = [data_sources |-> outcome.value]
                 ELSE /\ DOMAIN response.body = {"answer", "sql_query", "data"}
                      /\ response.body.data = outcome.value.query_result

\* /ask/predefined answered 500 for a job that failed with an error text
PredefinedFailureSurfaced ==
    /\ handler.endpoint = "predefined"
    /\ outcome.kind = "raise"
    /\ ErrorClass(outcome.exc) = "QueryExecutionError"
    /\ response # NoResponse
    /\ response.status = 500
    /\ response.detail = <<"Query execution failed: ", "boom">>

\* C14 as stated: /ask submits the sql_query of the request whenever it has one
\* (the empty one too) and the question otherwise; on success the envelope's
\* sql_query and the query field of the returned QueryResult both equal the
\* submitted string.
AskSubmitsSqlAsGiven ==
    handler.endpoint = "ask" /\ op = "execute_query" =>
        LET want == IF "sql_query" \in DOMAIN handler
                    THEN handler.sql_query ELSE handler.question
        IN
        /\ args.query = want
        /\ trace[1].json.query = want
        /\ response.status = 200 =>
              /\ response.body.sql_query = want
              /\ response.body.data.query = want

\* C14, amended: /ask submits the sql_query of the request when it has a
\* non-empty one and the question otherwise (also for an empty sql_query); on
\* success the envelope's sql_query equals the submitted string, and the query
\* field of the returned QueryResult equals it when it is non-empty and is the
\* query field of the service's payload ("" without one) when it is empty.
AskSubmitsNonEmptySql ==
    handler.endpoint = "ask" /\ op = "execute_query" =>
        LET want == IF "sql_query" \in DOMAIN handler /\ handler.sql_query # ""
                    THEN handler.sql_query ELSE handler.question
        IN
        /\ args.query = want
        /\ trace[1].json.query = want
        /\ response.status = 200 =>
              /\ response.body.sql_query = want
              /\ response.body.data.query =
                    (IF want # "" THEN want
                     ELSE Get(PayloadOf(Last(trace).body), "query", ""))

\* an /ask with a question and an empty sql_query succeeded with the question
EmptySqlFallsBackToQuestion ==
    /\ handler = [endpoint |-> "ask", question |-> "SELECT 2", sql_query |-> ""]
    /\ response.status = 200
    /\ response.body.sql_query = "SELECT 2"
    /\ response.body.data.query = "SELECT 2"

\* no client call is in progress and none has left anything behind
FrameClean ==
    /\ pc = "idle"
    /\ op = "none"
    /\ args = EmptyDict
    /\ query_id = None
    /\ job_data = JsonNull
    /\ job_id = None
    /\ result_id = None
    /\ outcome = NoOutcome
    /\ trace = <<>>

\* the outbound calls made so far are those of the running handler's request
OwnCalls ==
    Len(trace) > 0 =>
        CASE handler.endpoint = "data-sources" ->
                 Len(trace) = 1 /\ IsListFetch(trace[1])
          [] handler.endpoint = "ask" ->
                 /\ IsCreate(trace[1])
                 /\ trace[1].json.query = SqlQuery(handler)
                 /\ args = [query |-> SqlQuery(handler)]
                 /\ \A i \in 2..Len(trace) : ~IsCreate(trace[i]) /\ ~IsListFetch(trace[i])
          [] handler.endpoint = "predefined" ->
                 /\ IsTrigger(trace[1])
                 /\ trace[1].url[4] = handler.query_id
                 /\ args = PredefinedArgs(handler)
                 /\ \A i \in 1..Len(trace) : ~IsCreate(trace[i]) /\ ~IsListFetch(trace[i])

SleepingHandlerLetsOthersStart ==
    \A r \in Reqs :
        phase[r] = "waiting" /\ pc = "sleep" => ENABLED StartHandler(r)

====
